---- MODULE Spec2Model ----
(***************************************************************************)
(* Receivables dashboard (src/recev.py): the four report generators over   *)
(* the loaded Invoices and Payments sheets.                                *)
(*                                                                         *)
(* Conventions of the model                                                *)
(*  - a sheet is a sequence of rows; a row is a function from the sheet's  *)
(*    column names to values, so row["Invoice ID"] reads as in the source. *)
(*  - dates are proleptic Gregorian ordinals (datetime.date.toordinal()).  *)
(*  - a cell that may be missing (NaN / NaT) is <<>> when missing and <<v>>*)
(*    when present.                                                        *)
(*  - customer names and branches are integers standing for their rank in  *)
(*    the lexicographic order the source sorts them by.                    *)
(*  - amounts the source divides are exact rationals <<num, den>> in lowest*)
(*    terms (den > 0); float rounding is not modelled.                     *)
(***************************************************************************)
EXTENDS Integers, Sequences, FiniteSets, TLC

VARIABLES df_invoices, df_payments, today, tie_break, session_state, out, prev

vars == <<df_invoices, df_payments, today, tie_break, session_state, out, prev>>

\* Total number of rows (invoices plus payments) in the loaded workbook.
MaxRecords == 3

\* Largest distance in days between today and a due date in the aging runs.
MaxDays == 95

---------------------------------------------------------------------------
\* Generic helpers

None == <<>>

Some(v) == <<v>>

Range(s) == {s[i] : i \in 1..Len(s)}

Map(s, F(_)) == [i \in 1..Len(s) |-> F(s[i])]

RECURSIVE SumSeq(_)
SumSeq(s) == IF s = <<>> THEN 0 ELSE Head(s) + SumSeq(Tail(s))

Min(S) == CHOOSE x \in S : \A y \in S : x <= y

RECURSIVE SortedSeq(_)
SortedSeq(S) == IF S = {} THEN <<>> ELSE <<Min(S)>> \o SortedSeq(S \ {Min(S)})

Abs(n) == IF n < 0 THEN -n ELSE n

RECURSIVE GCD(_, _)
GCD(a, b) == IF b = 0 THEN a ELSE GCD(b, a % b)

\* Exact rationals.
Rat(n, d) ==
    LET g == GCD(Abs(n), Abs(d))
        s == IF d < 0 THEN -1 ELSE 1
    IN  <<(s * n) \div g, (s * d) \div g>>

FromInt(n) == <<n, 1>>

RatAdd(a, b) == Rat(a[1] * b[2] + b[1] * a[2], a[2] * b[2])

RatSub(a, b) == Rat(a[1] * b[2] - b[1] * a[2], a[2] * b[2])

RatMul(a, b) == Rat(a[1] * b[1], a[2] * b[2])

RatDiv(a, b) == Rat(a[1] * b[2], a[2] * b[1])

RECURSIVE RatSumSeq(_)
RatSumSeq(s) == IF s = <<>> THEN FromInt(0) ELSE RatAdd(Head(s), RatSumSeq(Tail(s)))

---------------------------------------------------------------------------
\* Dates

\* time_buckets with "FY 24-25 Q1" opening a day early, on 2024-03-31.
time_buckets_overlapping ==
    << [label |-> "Older Years", start_d |-> 693596, end_d |-> 738610],
       [label |-> "FY 23-24 H1", start_d |-> 738611, end_d |-> 738793],
       [label |-> "FY 23-24 H2", start_d |-> 738794, end_d |-> 738976],
       [label |-> "FY 24-25 Q1", start_d |-> 738976, end_d |-> 739067],
       [label |-> "FY 24-25 Q2", start_d |-> 739068, end_d |-> 739159],
       [label |-> "FY 24-25 Q3", start_d |-> 739160, end_d |-> 739251],
       [label |-> "FY 24-25 Q4", start_d |-> 739252, end_d |-> 739341] >>

\* create_segment_wise_report's fixed buckets; date(y, m, d) as its ordinal.
time_buckets ==
    << [label |-> "Older Years", start_d |-> 693596, end_d |-> 738610],
       [label |-> "FY 23-24 H1", start_d |-> 738611, end_d |-> 738793],
       [label |-> "FY 23-24 H2", start_d |-> 738794, end_d |-> 738976],
       [label |-> "FY 24-25 Q1", start_d |-> 738977, end_d |-> 739067],
       [label |-> "FY 24-25 Q2", start_d |-> 739068, end_d |-> 739159],
       [label |-> "FY 24-25 Q3", start_d |-> 739160, end_d |-> 739251],
       [label |-> "FY 24-25 Q4", start_d |-> 739252, end_d |-> 739341] >>

\* Two consecutive days on either side of a bucket edge: 2024-03-31, 2024-04-01.
Day1 == time_buckets[3].end_d

Day2 == time_buckets[4].start_d

Dates == {Day1, Day2}

\* datetime.date.fromordinal followed by strftime("%d/%m/%Y"): the day, month
\* and year fields of the formatted text.
DaysBeforeMonth == <<0, 31, 59, 90, 120, 151, 181, 212, 243, 273, 304, 334>>

DaysInMonth == <<31, 28, 31, 30, 31, 30, 31, 31, 30, 31, 30, 31>>

strftime(ordinal) ==
    LET n0   == ordinal - 1
        n400 == n0 \div 146097
        r400 == n0 % 146097
        n100 == r400 \div 36524
        r100 == r400 % 36524
        n4   == r100 \div 1461
        r4   == r100 % 1461
        n1   == r4 \div 365
        n    == r4 % 365
        year == n400 * 400 + 1 + n100 * 100 + n4 * 4 + n1
        leap == n1 = 3 /\ (n4 # 24 \/ n100 = 3)
        m0   == (n + 50) \div 32
        pre0 == DaysBeforeMonth[m0] + (IF m0 > 2 /\ leap THEN 1 ELSE 0)
        month == IF pre0 > n THEN m0 - 1 ELSE m0
        pre  == IF pre0 > n
                THEN pre0 - (DaysInMonth[month] + (IF month = 2 /\ leap THEN 1 ELSE 0))
                ELSE pre0
    IN  IF n1 = 4 \/ n100 = 4
        THEN <<31, 12, year - 1>>
        ELSE <<n - pre + 1, month, year>>

---------------------------------------------------------------------------
\* Sheets

\* An Invoices row without its "Invoice ID"; lines = <<machine, parts, service>>.
InvoiceRow(cust, comp, branch, inv_date, due_date, total, lines) ==
    ("Customer Name" :> cust) @@ ("Company Name" :> comp) @@ ("Branch" :> branch)
    @@ ("Invoice Date" :> inv_date) @@ ("Due Date" :> due_date)
    @@ ("Total Amount" :> total) @@ ("Machine Revenue" :> lines[1])
    @@ ("Parts Revenue" :> lines[2]) @@ ("Service Revenue" :> lines[3])

\* A Payments row without its "Payment ID".
PaymentRow(inv_id, pay_date, amount) ==
    ("Invoice ID" :> inv_id) @@ ("Payment Date" :> pay_date)
    @@ ("Payment Amount" :> amount)

\* All sequences over S of length at most n.
SeqsUpTo(S, n) == UNION {[1..k -> S] : k \in 0..n}

\* The rows of a sheet, keyed 1, 2, ... in sheet order (the key is unique).
Keyed(rows, key) == [i \in 1..Len(rows) |-> rows[i] @@ (key :> i)]

PaymentRows(ids, dates, amounts) ==
    {PaymentRow(i, d, a) : i \in ids, d \in dates, a \in amounts}

\* load_data: the two sheets of the workbook.  InvRows is the set of
\* invoice rows the workbook may hold; a payment row carries one of
\* pay_dates and pay_amounts and names an invoice of the sheet or the first
\* id the sheet lacks.  The module computes min_date and max_date right
\* after loading, which needs an invoice.
load_data(InvRows, pay_dates, pay_amounts) ==
    /\ df_invoices \in {Keyed(r, "Invoice ID") : r \in SeqsUpTo(InvRows, MaxRecords)}
    /\ df_invoices # <<>>
    /\ df_payments \in
         {Keyed(r, "Payment ID") :
            r \in SeqsUpTo(PaymentRows(1..(Len(df_invoices) + 1), pay_dates, pay_amounts),
                           MaxRecords - Len(df_invoices))}

---------------------------------------------------------------------------
\* Receivables report

InRange(d, from_date, to_date) == d >= from_date /\ d <= to_date

\* df_pay_lim.groupby("Invoice ID")["Payment Amount"].sum(), read at one id
\* with the left merge's fillna(0.0).
PaidToDate(payments, inv_id, cutoff) ==
    SumSeq(Map(SelectSeq(payments,
                         LAMBDA p : p["Invoice ID"] = inv_id /\ p["Payment Date"] <= cutoff),
               LAMBDA p : p["Payment Amount"]))

\* (today - Due Date).dt.days.fillna(0)
DaysPastDue(row, today_date) ==
    IF row["Due Date"] = None THEN 0 ELSE today_date - row["Due Date"][1]

\* aging_bucket with the second label misspelt.
aging_bucket_label_typo(days) ==
    IF days <= 0 THEN "Current"
    ELSE IF days <= 30 THEN "1-30 days"
    ELSE IF days <= 60 THEN "31-60 Days"
    ELSE IF days <= 90 THEN "61-90 Days"
    ELSE "90+ Days"

\* aging_bucket with the boundaries exclusive.
aging_bucket_exclusive(days) ==
    IF days < 0 THEN "Current"
    ELSE IF days < 30 THEN "1-30 Days"
    ELSE IF days < 60 THEN "31-60 Days"
    ELSE IF days < 90 THEN "61-90 Days"
    ELSE "90+ Days"

aging_bucket(days) ==
    IF days <= 0 THEN "Current"
    ELSE IF days <= 30 THEN "1-30 Days"
    ELSE IF days <= 60 THEN "31-60 Days"
    ELSE IF days <= 90 THEN "61-90 Days"
    ELSE "90+ Days"

AgingColumns == <<"Current", "1-30 Days", "31-60 Days", "61-90 Days", "90+ Days">>

\* distribute_partial_payments taking the payment off the first line when the
\* total is not positive.
distribute_fallback_nets_payment(row) ==
    LET total_inv == row["Total Amount"]
        paid      == FromInt(row["PaidToDate"])
        mach      == FromInt(row["Machine Revenue"])
        parts     == FromInt(row["Parts Revenue"])
        serv      == FromInt(row["Service Revenue"])
    IN  IF total_inv <= 0
        THEN <<RatSub(mach, paid), parts, serv>>
        ELSE <<RatSub(mach, RatMul(paid, RatDiv(mach, FromInt(total_inv)))),
               RatSub(parts, RatMul(paid, RatDiv(parts, FromInt(total_inv)))),
               RatSub(serv, RatMul(paid, RatDiv(serv, FromInt(total_inv))))>>

distribute_partial_payments(row) ==
    LET total_inv == row["Total Amount"]
        paid      == FromInt(row["PaidToDate"])
        mach      == FromInt(row["Machine Revenue"])
        parts     == FromInt(row["Parts Revenue"])
        serv      == FromInt(row["Service Revenue"])
    IN  IF total_inv <= 0
        THEN <<mach, parts, serv>>
        ELSE LET mach_share  == RatDiv(mach, FromInt(total_inv))
                 parts_share == RatDiv(parts, FromInt(total_inv))
                 serv_share  == RatDiv(serv, FromInt(total_inv))
                 mach_paid   == RatMul(paid, mach_share)
                 parts_paid  == RatMul(paid, parts_share)
                 serv_paid   == RatMul(paid, serv_share)
             IN  <<RatSub(mach, mach_paid), RatSub(parts, parts_paid),
                   RatSub(serv, serv_paid)>>

\* Steps 1-4: merged, filtered by invoice date, with the computed columns.
filtered_df(today_date, invoices, payments, from_date, to_date) ==
    LET merged == Map(invoices, LAMBDA r :
                    LET paid == PaidToDate(payments, r["Invoice ID"], today_date)
                    IN  r @@ ("PaidToDate" :> paid)
                          @@ ("Outstanding" :> r["Total Amount"] - paid))
        kept   == SelectSeq(merged, LAMBDA r : InRange(r["Invoice Date"], from_date, to_date))
    IN  Map(kept, LAMBDA r :
            LET days == DaysPastDue(r, today_date)
                r2   == r @@ ("Days Past Due" :> days) @@ ("Aging Bucket" :> aging_bucket(days))
                os   == distribute_partial_payments(r2)
            IN  r2 @@ ("Machine OS" :> os[1]) @@ ("Parts OS" :> os[2])
                   @@ ("Service OS" :> os[3]))

\* Step 5: the grouping column (<<>> for none).
group_col(group_by) ==
    IF group_by = "Grand Total" THEN None
    ELSE IF group_by = "Branch Wise Details" THEN Some("Branch")
    ELSE Some(group_by)

\* A row's cell in the grouping column, <<>> when it is missing.
GroupKey(row, col) == IF col = "Branch" THEN row["Branch"] ELSE Some(row[col])

\* groupby(col): the sorted keys; rows with a missing key belong to no group.
GroupKeys(rows, col) ==
    SortedSeq({GroupKey(r, col)[1] : r \in {x \in Range(rows) : GroupKey(x, col) # None}})

\* Steps 6-10 for the rows of one group: one row of the final table.
ReportRow(group, rows) ==
    LET Bucket(b) == SumSeq(Map(SelectSeq(rows, LAMBDA r : r["Aging Bucket"] = b),
                                LAMBDA r : r["Outstanding"]))
    IN  ("Group" :> group)
        @@ ("Total OS" :> SumSeq(Map(rows, LAMBDA r : r["Outstanding"])))
        @@ [b \in Range(AgingColumns) |-> Bucket(b)]
        @@ ("Machine OS" :> RatSumSeq(Map(rows, LAMBDA r : r["Machine OS"])))
        @@ ("Parts OS" :> RatSumSeq(Map(rows, LAMBDA r : r["Parts OS"])))
        @@ ("Service OS" :> RatSumSeq(Map(rows, LAMBDA r : r["Service OS"])))

\* The report as of today_date.  An empty filtered_df makes the unpacking of
\* zip(*filtered_df.apply(..., axis=1)) into three columns raise ValueError.
receivables_report_at(today_date, invoices, payments, from_date, to_date, group_by) ==
    LET rows == filtered_df(today_date, invoices, payments, from_date, to_date)
        col  == group_col(group_by)
    IN  IF rows = <<>>
        THEN [error |-> "ValueError", table |-> <<>>, detail |-> <<>>]
        ELSE [error  |-> "none",
              detail |-> rows,
              table  |->
                 IF col = None
                 THEN <<ReportRow("Grand Total", rows)>>
                 ELSE Map(GroupKeys(rows, col[1]), LAMBDA g :
                          ReportRow(g, SelectSeq(rows,
                              LAMBDA r : GroupKey(r, col[1]) = Some(g))))]

\* today_date = date.today()
create_receivables_report(invoices, payments, from_date, to_date, group_by) ==
    receivables_report_at(today, invoices, payments, from_date, to_date, group_by)

---------------------------------------------------------------------------
\* Banker report and customer ledger

\* df_payments.merge(df_invoices[["Invoice ID"] + cols], on="Invoice ID",
\* how="left"): each payment row gains the named columns of its invoice, every
\* one of them missing when no invoice has the payment's "Invoice ID".
\* merge_left giving a payment without an invoice the first invoice's columns.
merge_left_first_row(payments, invoices, cols) ==
    Map(payments, LAMBDA p :
        LET hit == SelectSeq(invoices, LAMBDA r : r["Invoice ID"] = p["Invoice ID"])
        IN  p @@ [c \in cols |-> IF hit # <<>> THEN Some(hit[1][c])
                                 ELSE IF invoices # <<>> THEN Some(invoices[1][c])
                                 ELSE None])

merge_left(payments, invoices, cols) ==
    Map(payments, LAMBDA p :
        LET hit == SelectSeq(invoices, LAMBDA r : r["Invoice ID"] = p["Invoice ID"])
        IN  p @@ [c \in cols |-> IF hit = <<>> THEN None ELSE Some(hit[1][c])])

\* rows.groupby("Customer Name")[col].sum(): the index, and the sum at a key.
\* Invoice rows hold the name itself, merged payment rows hold <<name>> or <<>>.
InvCustomers(rows) == {r["Customer Name"] : r \in Range(rows)}

PayCustomers(rows) ==
    {r["Customer Name"][1] : r \in {x \in Range(rows) : x["Customer Name"] # None}}

InvSum(rows, cust) ==
    SumSeq(Map(SelectSeq(rows, LAMBDA r : r["Customer Name"] = cust),
               LAMBDA r : r["Total Amount"]))

PaySum(rows, cust) ==
    SumSeq(Map(SelectSeq(rows, LAMBDA r : r["Customer Name"] = Some(cust)),
               LAMBDA r : r["Payment Amount"]))

\* all_cust without the customers who only paid in the window.
all_cust_without_credits(df_inv_before, df_pay_before, df_inv_range, df_pay_range) ==
    SortedSeq(InvCustomers(df_inv_before) \cup PayCustomers(df_pay_before)
              \cup InvCustomers(df_inv_range))

\* The sorted union of the four aggregates' indexes (lines 233-236).
all_cust(df_inv_before, df_pay_before, df_inv_range, df_pay_range) ==
    SortedSeq(InvCustomers(df_inv_before) \cup PayCustomers(df_pay_before)
              \cup InvCustomers(df_inv_range) \cup PayCustomers(df_pay_range))

create_banker_report(invoices, payments, from_date, to_date) ==
    LET dfp_merged    == merge_left(payments, invoices, {"Customer Name"})
        df_inv_before == SelectSeq(invoices, LAMBDA r : r["Invoice Date"] < from_date)
        df_pay_before == SelectSeq(dfp_merged, LAMBDA r : r["Payment Date"] < from_date)
        df_inv_range  == SelectSeq(invoices,
                            LAMBDA r : InRange(r["Invoice Date"], from_date, to_date))
        df_pay_range  == SelectSeq(dfp_merged,
                            LAMBDA r : InRange(r["Payment Date"], from_date, to_date))
    IN  [error |-> "none",
         table |-> Map(all_cust(df_inv_before, df_pay_before, df_inv_range, df_pay_range),
            LAMBDA c :
            LET opening == InvSum(df_inv_before, c) - PaySum(df_pay_before, c)
                debits  == InvSum(df_inv_range, c)
                credits == PaySum(df_pay_range, c)
            IN  ("Customer Name" :> c) @@ ("Opening Balance" :> opening)
                @@ ("Debits (Invoices)" :> debits) @@ ("Credits (Payments)" :> credits)
                @@ ("Balance" :> opening + debits - credits))]

\* ledger_df.sort_values(by="Date"): the default kind is quicksort, which
\* does not keep rows of equal date in their insertion order on every build;
\* kind names what the running build does with them.
SortKinds == {"stable", "reversed"}

Before(rows, kind, i, j) ==
    \/ rows[i]["Date"] < rows[j]["Date"]
    \/ /\ rows[i]["Date"] = rows[j]["Date"]
       /\ IF kind = "stable" THEN i < j ELSE i > j

RECURSIVE SortIndices(_, _, _)
SortIndices(rows, kind, I) ==
    IF I = {} THEN <<>>
    ELSE LET first == CHOOSE i \in I : \A j \in I \ {i} : Before(rows, kind, i, j)
         IN  <<rows[first]>> \o SortIndices(rows, kind, I \ {first})

sort_values(rows, kind) == SortIndices(rows, kind, 1..Len(rows))

\* The sequential scan of lines 318-322.
RECURSIVE RunningBalance(_, _)
RunningBalance(rows, current) ==
    IF rows = <<>> THEN <<>>
    ELSE LET next == current + Head(rows)["Debits"] - Head(rows)["Credits"]
         IN  <<next>> \o RunningBalance(Tail(rows), next)

\* opening_balance counting the transactions of from_date itself.
opening_balance_through_from_date(invoices, dfp_merged, from_date, customer_name) ==
    SumSeq(Map(SelectSeq(invoices, LAMBDA r :
                 r["Customer Name"] = customer_name /\ r["Invoice Date"] <= from_date),
               LAMBDA r : r["Total Amount"]))
    - SumSeq(Map(SelectSeq(dfp_merged, LAMBDA r :
                   r["Customer Name"] = Some(customer_name) /\ r["Payment Date"] <= from_date),
                 LAMBDA r : r["Payment Amount"]))

\* Lines 307-317.
opening_balance(invoices, dfp_merged, from_date, customer_name) ==
    LET df_inv_before == SumSeq(Map(SelectSeq(invoices, LAMBDA r :
                            /\ r["Customer Name"] = customer_name
                            /\ r["Invoice Date"] < from_date),
                            LAMBDA r : r["Total Amount"]))
        df_pay_before == SumSeq(Map(SelectSeq(dfp_merged, LAMBDA r :
                            /\ r["Customer Name"] = Some(customer_name)
                            /\ r["Payment Date"] < from_date),
                            LAMBDA r : r["Payment Amount"]))
    IN  df_inv_before - df_pay_before

\* With no ledger row pd.DataFrame([]) has no "Date" column and sort_values
\* raises KeyError.
ledger_with_sort(kind, invoices, payments, from_date, to_date, customer_name) ==
    LET dfp_merged  == merge_left(payments, invoices, {"Customer Name"})
        df_inv      == SelectSeq(invoices, LAMBDA r :
                          /\ r["Customer Name"] = customer_name
                          /\ InRange(r["Invoice Date"], from_date, to_date))
        df_pay_cust == SelectSeq(dfp_merged, LAMBDA r :
                          /\ r["Customer Name"] = Some(customer_name)
                          /\ InRange(r["Payment Date"], from_date, to_date))
        ledger_rows ==
            Map(df_inv, LAMBDA r :
                ("Date" :> r["Invoice Date"]) @@ ("Txn Type" :> <<"Invoice", r["Invoice ID"]>>)
                @@ ("Debits" :> r["Total Amount"]) @@ ("Credits" :> 0))
            \o Map(df_pay_cust, LAMBDA r :
                ("Date" :> r["Payment Date"]) @@ ("Txn Type" :> <<"Payment", r["Payment ID"]>>)
                @@ ("Debits" :> 0) @@ ("Credits" :> r["Payment Amount"]))
        ledger_df   == sort_values(ledger_rows, kind)
        running_balance == RunningBalance(ledger_df,
                              opening_balance(invoices, dfp_merged, from_date, customer_name))
    IN  IF ledger_rows = <<>>
        THEN [error |-> "KeyError", table |-> <<>>]
        ELSE [error |-> "none",
              table |-> [i \in 1..Len(ledger_df) |->
                 ("Date" :> strftime(ledger_df[i]["Date"]))
                 @@ ("Txn Type" :> ledger_df[i]["Txn Type"])
                 @@ ("Debits" :> ledger_df[i]["Debits"])
                 @@ ("Credits" :> ledger_df[i]["Credits"])
                 @@ ("Running Balance" :> running_balance[i])]]

\* create_customer_ledger closing the window at today.
create_customer_ledger_until_today(invoices, payments, from_date, to_date, customer_name) ==
    ledger_with_sort(tie_break, invoices, payments, from_date,
                     IF to_date > today THEN today ELSE to_date, customer_name)

create_customer_ledger(invoices, payments, from_date, to_date, customer_name) ==
    ledger_with_sort(tie_break, invoices, payments, from_date, to_date, customer_name)

---------------------------------------------------------------------------
\* Segment wise report

segments == <<"Machine", "Parts", "Service">>

SegmentLines == {"Outstanding as on Date", "Less: Payment Received", "Balance OS"}

col_labels == Map(time_buckets, LAMBDA tb : tb.label)

\* One payment's split over the segments (lines 403-414).
PaymentShares(row2) ==
    LET inv_mach  == row2["Machine Revenue"][1]
        inv_parts == row2["Parts Revenue"][1]
        inv_serv  == row2["Service Revenue"][1]
        inv_sum   == inv_mach + inv_parts + inv_serv
        pay_amt   == FromInt(row2["Payment Amount"])
    IN  IF inv_sum > 0
        THEN ("Machine" :> RatMul(pay_amt, Rat(inv_mach, inv_sum)))
             @@ ("Parts" :> RatMul(pay_amt, Rat(inv_parts, inv_sum)))
             @@ ("Service" :> RatMul(pay_amt, Rat(inv_serv, inv_sum)))
        ELSE [seg \in Range(segments) |-> FromInt(0)]

\* df_pay_range by the payment's date alone.
df_pay_range_by_payment_date(dfp_merged, tb) ==
    SelectSeq(dfp_merged, LAMBDA r :
        /\ r["Invoice Date"] # None
        /\ InRange(r["Payment Date"], tb.start_d, tb.end_d))

\* The payments counted in a bucket (lines 391-396); a comparison with a
\* missing "Invoice Date" is false.
df_pay_range(dfp_merged, tb) ==
    SelectSeq(dfp_merged, LAMBDA r :
        /\ r["Invoice Date"] # None
        /\ InRange(r["Invoice Date"][1], tb.start_d, tb.end_d)
        /\ InRange(r["Payment Date"], tb.start_d, tb.end_d))

\* One pass of the loop over time_buckets (lines 381-430): the nine cells
\* of the bucket's column.
BucketColumn(invoices, dfp_merged, tb) ==
    LET df_inv_range == SelectSeq(invoices, LAMBDA r :
                           InRange(r["Invoice Date"], tb.start_d, tb.end_d))
        pay_rows     == df_pay_range(dfp_merged, tb)
        shares       == Map(pay_rows, PaymentShares)
        os  == [seg \in Range(segments) |->
                  FromInt(SumSeq(Map(df_inv_range, LAMBDA r : r[seg \o " Revenue"])))]
        pay == [seg \in Range(segments) |->
                  RatSumSeq(Map(shares, LAMBDA sh : sh[seg]))]
    IN  [k \in Range(segments) \X SegmentLines |->
           IF k[2] = "Outstanding as on Date" THEN os[k[1]]
           ELSE IF k[2] = "Less: Payment Received" THEN pay[k[1]]
           ELSE RatSub(os[k[1]], pay[k[1]])]

create_segment_wise_report(all_invoices, payments, company) ==
    LET invoices   == IF company # "All Companies"
                      THEN SelectSeq(all_invoices, LAMBDA r : r["Company Name"] = company)
                      ELSE all_invoices
        dfp_merged == merge_left(payments, invoices,
                         {"Invoice Date", "Machine Revenue", "Parts Revenue",
                          "Service Revenue"})
        columns    == [i \in 1..Len(time_buckets) |->
                         BucketColumn(invoices, dfp_merged, time_buckets[i])]
    IN  [error |-> "none",
         table |-> [k \in Range(segments) \X SegmentLines |->
                      [c \in Range(col_labels) |->
                         columns[CHOOSE i \in 1..Len(time_buckets) :
                                    time_buckets[i].label = c][k]]]]

---------------------------------------------------------------------------
\* The dashboard: the loaded sheets, the clock, the widgets and the pages

\* No report generated yet.
NoRun == [report |-> "none"]

\* out is the table the last page produced (or the exception it raised) with
\* the arguments and the date of the call; prev is the result of the call
\* before it when that call was the same report with the same arguments.
Generate(report, params, result) ==
    /\ out' = [report |-> report, params |-> params, asof |-> today, result |-> result]
    /\ prev' = IF out.report = report /\ out.params = params THEN out ELSE NoRun
    /\ UNCHANGED <<df_invoices, df_payments, today, tie_break, session_state>>

show_receivables_report ==
    LET from_dt   == session_state.from_date
        to_dt     == session_state.to_date
        group_opt == session_state.group_choice
    IN  Generate("receivables", <<from_dt, to_dt, group_opt>>,
                 create_receivables_report(df_invoices, df_payments, from_dt, to_dt, group_opt))

show_banker_report ==
    LET from_dt == session_state.from_date
        to_dt   == session_state.to_date
    IN  Generate("banker", <<from_dt, to_dt>>,
                 create_banker_report(df_invoices, df_payments, from_dt, to_dt))

\* The select box offers the customers of the Invoices sheet.
show_customer_ledger ==
    LET from_dt     == session_state.from_date
        to_dt       == session_state.to_date
        chosen_cust == session_state.chosen_cust
    IN  /\ chosen_cust \in InvCustomers(df_invoices)
        /\ Generate("ledger", <<from_dt, to_dt, chosen_cust>>,
                    create_customer_ledger(df_invoices, df_payments, from_dt, to_dt,
                                           chosen_cust))

\* The select box offers "All Companies" and the companies of the sheet.
show_segment_wise ==
    LET chosen_company == session_state.chosen_company
    IN  /\ chosen_company \in {"All Companies"}
                              \cup {r["Company Name"] : r \in Range(df_invoices)}
        /\ Generate("segment", <<chosen_company>>,
                    create_segment_wise_report(df_invoices, df_payments, chosen_company))

\* Midnight passes: date.today() moves on.
NextDay ==
    /\ today < Day2
    /\ today' = today + 1
    /\ UNCHANGED <<df_invoices, df_payments, tie_break, session_state, out, prev>>

\* The global date filters' range.
min_date == Min({r["Invoice Date"] : r \in Range(df_invoices)})

max_date == 0 - Min({0 - r["Invoice Date"] : r \in Range(df_invoices)})

\* The sidebar's initial window, and the windows its two date inputs allow:
\* each date within [min_date, max_date], in either order.
DefaultWindow == {<<min_date, max_date>>}

AnyWindow ==
    {w \in Dates \X Dates :
        InRange(w[1], min_date, max_date) /\ InRange(w[2], min_date, max_date)}

\* The widget values of a session.
Sessions(windows, groups, custs, companies) ==
    {[from_date |-> w[1], to_date |-> w[2], group_choice |-> g, chosen_cust |-> c,
      chosen_company |-> co] : w \in windows, g \in groups, c \in custs, co \in companies}

\* The state right after the module is loaded.
Loaded(InvRows, pay_dates, pay_amounts, todays, kinds, sessions) ==
    /\ load_data(InvRows, pay_dates, pay_amounts)
    /\ today \in todays
    /\ tie_break \in kinds
    /\ session_state \in sessions
    /\ out = NoRun
    /\ prev = NoRun

---------------------------------------------------------------------------
\* Spec: all four pages over workbooks of one customer's invoices, dated on
\* either day and due 30 days before Day1, whose payments may name an invoice
\* the sheet lacks; today is Day1 and may become Day2.

AllInvoiceRows ==
    {InvoiceRow(1, "CoA", Some(1), d, Some(Day1 - 30), 1000, <<400, 300, 300>>) :
        d \in Dates}

Init ==
    Loaded(AllInvoiceRows, Dates, {500}, {Day1}, {"stable"},
           Sessions(AnyWindow, {"Grand Total", "Customer Name"}, {1},
                    {"All Companies"}))

Next ==
    \/ show_receivables_report
    \/ show_banker_report
    \/ show_customer_ledger
    \/ show_segment_wise
    \/ NextDay

Spec == Init /\ [][Next]_vars

---------------------------------------------------------------------------
\* SpecRecv: the receivables page over invoices of one amount that differ in
\* branch (missing, 1, 2), due date (missing, 30 days before Day1) and invoice
\* date, with payments dated Day2; today is Day1 or Day2.

RecvInvoiceRows ==
    {InvoiceRow(1, "CoA", b, Day2, due, 1000, <<400, 300, 300>>) :
        b \in {None, Some(1), Some(2)}, due \in {None, Some(Day1 - 30)}}
    \cup {InvoiceRow(1, "CoA", Some(1), Day1, None, 1000, <<400, 300, 300>>)}

InitRecv ==
    Loaded(RecvInvoiceRows, {Day2}, {500}, Dates, {"stable"},
           Sessions(AnyWindow, {"Grand Total", "Branch Wise Details"}, {1},
                    {"All Companies"}))

NextRecv == show_receivables_report

SpecRecv == InitRecv /\ [][NextRecv]_vars

---------------------------------------------------------------------------
\* SpecAlloc: the receivables page over invoices that differ in total and
\* revenue lines (lines summing to the total, lines falling short of it, a
\* zero and a negative total), with payments of 50 or 500 on either day.

AllocInvoiceRows ==
    {InvoiceRow(1, "CoA", Some(1), Day2, None, a[1], a[2]) :
        a \in {<<1000, <<400, 300, 300>>>>, <<1000, <<400, 300, 200>>>>,
               <<0, <<100, 0, 0>>>>, <<-100, <<-100, 0, 0>>>>}}

InitAlloc ==
    Loaded(AllocInvoiceRows, Dates, {50, 500}, Dates, {"stable"},
           Sessions(DefaultWindow, {"Grand Total"}, {1}, {"All Companies"}))

NextAlloc == show_receivables_report

SpecAlloc == InitAlloc /\ [][NextAlloc]_vars

---------------------------------------------------------------------------
\* SpecAging: the receivables page over one unpaid invoice whose due date is
\* missing or lies up to MaxDays days before or after today.

AgingInvoiceRows ==
    {InvoiceRow(1, "CoA", Some(1), Day2, due, 1000, <<400, 300, 300>>) :
        due \in {None} \cup {Some(Day2 - k) : k \in (0 - MaxDays)..MaxDays}}

InitAging ==
    /\ df_invoices \in {Keyed(<<r>>, "Invoice ID") : r \in AgingInvoiceRows}
    /\ df_payments = <<>>
    /\ today = Day2
    /\ tie_break = "stable"
    /\ session_state \in Sessions(DefaultWindow, {"Grand Total"}, {1}, {"All Companies"})
    /\ out = NoRun
    /\ prev = NoRun

NextAging == show_receivables_report

SpecAging == InitAging /\ [][NextAging]_vars

---------------------------------------------------------------------------
\* SpecBook: the banker and ledger pages over invoices of 300 of two
\* customers on either day, with payments of 100 on either day, under both
\* orders the sort may leave rows of one date in.

BookInvoiceRows ==
    {InvoiceRow(c, "CoA", Some(1), d, None, 300, <<300, 0, 0>>) :
        c \in {1, 2}, d \in Dates}

InitBook ==
    Loaded(BookInvoiceRows, Dates, {100}, {Day2}, SortKinds,
           Sessions(AnyWindow, {"Grand Total"}, {1, 2}, {"All Companies"}))

NextBook ==
    \/ show_banker_report
    \/ show_customer_ledger

SpecBook == InitBook /\ [][NextBook]_vars

---------------------------------------------------------------------------
\* SpecSeg: the segment page over invoices of two companies dated on either
\* side of the edge between "FY 23-24 H2" and "FY 24-25 Q1", with and without
\* revenue, and payments of 500 on either side.

SegInvoiceRows ==
    {InvoiceRow(1, co, Some(1), d, None, 1000, l) :
        co \in {"CoA", "CoB"}, d \in Dates, l \in {<<400, 300, 300>>, <<0, 0, 0>>}}

InitSeg ==
    Loaded(SegInvoiceRows, Dates, {500}, {Day2}, {"stable"},
           Sessions(DefaultWindow, {"Grand Total"}, {1},
                    {"All Companies", "CoA", "CoB"}))

NextSeg == show_segment_wise

SpecSeg == InitSeg /\ [][NextSeg]_vars

---------------------------------------------------------------------------
\* Claims

\* Sum of f[x] over the finite set S.
RECURSIVE SumOver(_, _)
SumOver(S, f) ==
    IF S = {} THEN 0
    ELSE LET x == CHOOSE y \in S : TRUE IN f[x] + SumOver(S \ {x}, f)

ReceivablesDone == out.report = "receivables" /\ out.result.error = "none"

\* C1: in every row of a receivables report, grouped or not, Total OS is the
\* sum of the five aging columns (a bucket with no invoice counting 0).
C1_TotalIsSumOfAging ==
    ReceivablesDone =>
        \A i \in 1..Len(out.result.table) :
            LET row == out.result.table[i]
            IN  /\ Range(AgingColumns) \subseteq DOMAIN row
                /\ row["Total OS"]
                     = row["Current"] + row["1-30 Days"] + row["31-60 Days"]
                       + row["61-90 Days"] + row["90+ Days"]

\* A branch row made of a current invoice and an overdue one, a payment taken off.
C1_Witness ==
    /\ ReceivablesDone
    /\ out.params[3] = "Branch Wise Details"
    /\ \E i \in 1..Len(out.result.table) :
          LET row == out.result.table[i]
          IN  /\ row["Current"] > 0
              /\ row["1-30 Days"] + row["31-60 Days"] > 0
              /\ row["Total OS"] = 1500

---------------------------------------------------------------------------
\* The payments of one invoice dated on or before the cutoff, summed.
PaidOnOrBefore(inv_id, cutoff) ==
    LET I == {i \in 1..Len(df_payments) :
                /\ df_payments[i]["Invoice ID"] = inv_id
                /\ df_payments[i]["Payment Date"] <= cutoff}
    IN  SumOver(I, [i \in I |-> df_payments[i]["Payment Amount"]])

LineOSTotal(row) == RatAdd(RatAdd(row["Machine OS"], row["Parts OS"]), row["Service OS"])

\* C2: for every invoice with a positive total the three allocated amounts
\* add up to total minus the payments to date, whatever the revenue lines are.
C2_LinesSumToOutstanding ==
    ReceivablesDone =>
        \A i \in 1..Len(out.result.detail) :
            LET row == out.result.detail[i]
            IN  row["Total Amount"] > 0 =>
                   LineOSTotal(row)
                     = FromInt(row["Total Amount"]
                               - PaidOnOrBefore(row["Invoice ID"], out.asof))

\* C9: for an invoice whose total is not positive the allocator returns the
\* raw revenue triple whatever was paid, and Outstanding is still total minus
\* the payments to date.
C9_FallbackReturnsRawLines ==
    ReceivablesDone =>
        \A i \in 1..Len(out.result.detail) :
            LET row == out.result.detail[i]
            IN  row["Total Amount"] <= 0 =>
                   /\ row["Machine OS"] = FromInt(row["Machine Revenue"])
                   /\ row["Parts OS"] = FromInt(row["Parts Revenue"])
                   /\ row["Service OS"] = FromInt(row["Service Revenue"])
                   /\ row["Outstanding"]
                        = row["Total Amount"] - PaidOnOrBefore(row["Invoice ID"], out.asof)

\* An invoice of total 0 and lines (100, 0, 0) with 50 paid: lines stay (100, 0, 0).
C9_Witness ==
    /\ ReceivablesDone
    /\ \E i \in 1..Len(out.result.detail) :
          LET row == out.result.detail[i]
          IN  /\ row["Total Amount"] = 0
              /\ row["PaidToDate"] = 50
              /\ row["Outstanding"] = -50
              /\ row["Machine OS"] = FromInt(100)

\* C5: the aging label follows the boundaries <= 0, 1..30, 31..60, 61..90,
\* > 90, a missing due date counting as 0 days, and the invoice's outstanding
\* amount lands in the column of that label alone.
ExpectedDays(row, asof) == IF Len(row["Due Date"]) = 0 THEN 0 ELSE asof - row["Due Date"][1]

C5_AgingBoundaries ==
    ReceivablesDone =>
        \A i \in 1..Len(out.result.detail) :
            LET row  == out.result.detail[i]
                days == ExpectedDays(row, out.asof)
                b    == row["Aging Bucket"]
            IN  /\ row["Days Past Due"] = days
                /\ (b = "Current") = (days <= 0)
                /\ (b = "1-30 Days") = (days \in 1..30)
                /\ (b = "31-60 Days") = (days \in 31..60)
                /\ (b = "61-90 Days") = (days \in 61..90)
                /\ (b = "90+ Days") = (days > 90)
                /\ Cardinality({c \in Range(AgingColumns) : c = b}) = 1
                /\ Len(out.result.detail) = 1 =>
                      \A c \in Range(AgingColumns) :
                          out.result.table[1][c] = IF c = b THEN row["Outstanding"] ELSE 0

\* An invoice 91 days past due is reported under "90+ Days".
C5_Witness ==
    /\ ReceivablesDone
    /\ out.result.detail[1]["Days Past Due"] = 91
    /\ out.result.table[1]["90+ Days"] = 1000

---------------------------------------------------------------------------
\* Sums over the sheets, by row index.
InvoiceIdx(P(_)) == {i \in 1..Len(df_invoices) : P(df_invoices[i])}

InvoiceTotal(I) == SumOver(I, [i \in I |-> df_invoices[i]["Total Amount"]])

\* The payments that P holds of and whose invoice belongs to cust.
PaymentIdx(cust, P(_)) ==
    {j \in 1..Len(df_payments) :
        /\ P(df_payments[j])
        /\ \E i \in 1..Len(df_invoices) :
              /\ df_invoices[i]["Invoice ID"] = df_payments[j]["Invoice ID"]
              /\ df_invoices[i]["Customer Name"] = cust}

PaymentTotal(J) == SumOver(J, [j \in J |-> df_payments[j]["Payment Amount"]])

InvBefore(cust, from_date) ==
    InvoiceIdx(LAMBDA r : r["Customer Name"] = cust /\ r["Invoice Date"] < from_date)

InvWithin(cust, from_date, to_date) ==
    InvoiceIdx(LAMBDA r : /\ r["Customer Name"] = cust
                          /\ from_date <= r["Invoice Date"]
                          /\ r["Invoice Date"] <= to_date)

PayBefore(cust, from_date) == PaymentIdx(cust, LAMBDA q : q["Payment Date"] < from_date)

PayWithin(cust, from_date, to_date) ==
    PaymentIdx(cust, LAMBDA q : from_date <= q["Payment Date"] /\ q["Payment Date"] <= to_date)

AllCustomers == {df_invoices[i]["Customer Name"] : i \in 1..Len(df_invoices)}

LedgerDone == out.report = "ledger" /\ out.result.error = "none"

\* C3: the last Running Balance of a customer's ledger is the opening balance
\* plus the ledger's debits minus its credits, and is the Balance of the
\* banker report for that customer and window.
C3_LedgerClosesAtBankerBalance ==
    LedgerDone =>
        LET from_date == out.params[1]
            to_date   == out.params[2]
            cust      == out.params[3]
            t         == out.result.table
            opening   == InvoiceTotal(InvBefore(cust, from_date))
                         - PaymentTotal(PayBefore(cust, from_date))
            debits    == SumOver(DOMAIN t, [i \in DOMAIN t |-> t[i]["Debits"]])
            credits   == SumOver(DOMAIN t, [i \in DOMAIN t |-> t[i]["Credits"]])
            banker    == create_banker_report(df_invoices, df_payments, from_date, to_date).table
        IN  /\ t[Len(t)]["Running Balance"] = opening + debits - credits
            /\ \E k \in 1..Len(banker) :
                  /\ banker[k]["Customer Name"] = cust
                  /\ banker[k]["Balance"] = t[Len(t)]["Running Balance"]

\* An opening balance of 300, then an invoice of 300 and a payment of 100.
C3_Witness ==
    /\ LedgerDone
    /\ out.params[1] = Day2
    /\ Len(out.result.table) = 2
    /\ out.result.table[2]["Running Balance"] = 500
    /\ \E i \in 1..2 : out.result.table[i]["Credits"] = 100

BankerDone == out.report = "banker" /\ out.result.error = "none"

\* C10: the banker report has one row per customer of any of the four
\* slices, sorted by name, with Opening Balance = invoices before - payments
\* before and Balance = Opening Balance + Debits - Credits, an absent slice
\* counting 0.
C10_BankerRows ==
    BankerDone =>
        LET from_date == out.params[1]
            to_date   == out.params[2]
            t         == out.result.table
            InSlice(c) == \/ InvBefore(c, from_date) # {}
                          \/ PayBefore(c, from_date) # {}
                          \/ InvWithin(c, from_date, to_date) # {}
                          \/ PayWithin(c, from_date, to_date) # {}
        IN  /\ \A k \in 1..(Len(t) - 1) : t[k]["Customer Name"] < t[k + 1]["Customer Name"]
            /\ {t[k]["Customer Name"] : k \in 1..Len(t)} = {c \in AllCustomers : InSlice(c)}
            /\ \A k \in 1..Len(t) :
                  LET c == t[k]["Customer Name"]
                  IN  /\ t[k]["Opening Balance"]
                           = InvoiceTotal(InvBefore(c, from_date))
                             - PaymentTotal(PayBefore(c, from_date))
                      /\ t[k]["Debits (Invoices)"] = InvoiceTotal(InvWithin(c, from_date, to_date))
                      /\ t[k]["Credits (Payments)"] = PaymentTotal(PayWithin(c, from_date, to_date))
                      /\ t[k]["Balance"]
                           = t[k]["Opening Balance"] + t[k]["Debits (Invoices)"]
                             - t[k]["Credits (Payments)"]

\* Two customers: one only invoiced in the window, one who only paid in it.
C10_Witness ==
    /\ BankerDone
    /\ Len(out.result.table) = 2
    /\ \E k \in 1..2 : /\ out.result.table[k]["Debits (Invoices)"] = 300
                       /\ out.result.table[k]["Balance"] = 300
    /\ \E k \in 1..2 : /\ out.result.table[k]["Credits (Payments)"] = 100
                       /\ out.result.table[k]["Balance"] = -100

---------------------------------------------------------------------------
RECURSIVE RatSumOver(_, _)
RatSumOver(S, f) ==
    IF S = {} THEN FromInt(0)
    ELSE LET x == CHOOSE y \in S : TRUE IN RatAdd(f[x], RatSumOver(S \ {x}, f))

SegmentDone == out.report = "segment" /\ out.result.error = "none"

\* The label of the bucket a date lies in (<<>> when it lies in none).
BucketOf(d) ==
    LET hit == {i \in 1..Len(time_buckets) :
                   time_buckets[i].start_d <= d /\ d <= time_buckets[i].end_d}
    IN  IF hit = {} THEN None ELSE Some(time_buckets[CHOOSE i \in hit : TRUE].label)

\* The invoices the segment report of a company reads, by row index.
CompanyInvoices(company) ==
    {i \in 1..Len(df_invoices) :
        company = "All Companies" \/ df_invoices[i]["Company Name"] = company}

\* The invoice row of payment j among those, as a set of at most one index.
InvoiceOfPayment(j, company) ==
    {i \in CompanyInvoices(company) :
        df_invoices[i]["Invoice ID"] = df_payments[j]["Invoice ID"]}

\* The part of payment j that goes to a segment of its invoice i.
SegmentShare(j, i, seg) ==
    LET r     == df_invoices[i]
        lines == r["Machine Revenue"] + r["Parts Revenue"] + r["Service Revenue"]
    IN  IF lines > 0
        THEN Rat(df_payments[j]["Payment Amount"] * r[seg \o " Revenue"], lines)
        ELSE FromInt(0)

\* The payments whose own date and whose invoice's date both lie in bucket c.
SameBucketPayments(company, c) ==
    {j \in 1..Len(df_payments) :
        \E i \in InvoiceOfPayment(j, company) :
            /\ BucketOf(df_invoices[i]["Invoice Date"]) = Some(c)
            /\ BucketOf(df_payments[j]["Payment Date"]) = Some(c)}

\* The payments dated in another bucket than their invoice.
CrossBucketPayments(company) ==
    {j \in 1..Len(df_payments) :
        \E i \in InvoiceOfPayment(j, company) :
            BucketOf(df_invoices[i]["Invoice Date"]) # BucketOf(df_payments[j]["Payment Date"])}

Received(seg, c) == out.result.table[<<seg, "Less: Payment Received">>][c]

\* C4: "Less: Payment Received" of a bucket is made of the payments whose own
\* date and whose invoice's date both lie in that bucket; a payment dated in
\* another bucket than its invoice is counted in no bucket.
C4_PaymentsCountOnlyInOwnBucket ==
    SegmentDone =>
        LET company == out.params[1]
            Share(J, seg) ==
                RatSumOver(J, [j \in J |->
                    SegmentShare(j, CHOOSE i \in InvoiceOfPayment(j, company) : TRUE, seg)])
            counted == UNION {SameBucketPayments(company, c) : c \in Range(col_labels)}
        IN  \A seg \in Range(segments) :
               /\ \A c \in Range(col_labels) :
                     Received(seg, c) = Share(SameBucketPayments(company, c), seg)
               /\ RatSumOver(Range(col_labels), [c \in Range(col_labels) |-> Received(seg, c)])
                     = Share(counted, seg)
               /\ counted \cap CrossBucketPayments(company) = {}

\* An invoice of 2024-03-31 paid on 2024-04-01 beside one paid on its own day:
\* only the second payment is received, in "FY 23-24 H2".
C4_Witness ==
    /\ SegmentDone
    /\ CrossBucketPayments(out.params[1]) # {}
    /\ Received("Machine", "FY 23-24 H2") = FromInt(200)
    /\ Received("Machine", "FY 24-25 Q1") = FromInt(0)
    /\ out.result.table[<<"Machine", "Outstanding as on Date">>]["FY 23-24 H2"] = FromInt(400)

---------------------------------------------------------------------------
\* Every amount of every row of a table of rows is 0.
ZeroFilled(table, columns) ==
    \A i \in 1..Len(table) : \A c \in columns :
        table[i][c] = 0 \/ table[i][c] = FromInt(0)

\* C6: when the filters select nothing, the receivables report, the customer
\* ledger and the banker report each return a table, empty or zero-filled,
\* and do not fail.
C6_EmptySelectionGivesTable ==
    /\ ( /\ out.report = "receivables"
         /\ InvoiceIdx(LAMBDA r : /\ out.params[1] <= r["Invoice Date"]
                                  /\ r["Invoice Date"] <= out.params[2]) = {} )
         => /\ out.result.error = "none"
            /\ ZeroFilled(out.result.table,
                          {"Total OS", "Machine OS", "Parts OS", "Service OS"}
                          \cup Range(AgingColumns))
    /\ ( /\ out.report = "ledger"
         /\ InvWithin(out.params[3], out.params[1], out.params[2]) = {}
         /\ PayWithin(out.params[3], out.params[1], out.params[2]) = {} )
         => /\ out.result.error = "none"
            /\ out.result.table = <<>>
    /\ ( /\ out.report = "banker"
         /\ \A c \in AllCustomers :
               /\ InvBefore(c, out.params[1]) = {}
               /\ PayBefore(c, out.params[1]) = {}
               /\ InvWithin(c, out.params[1], out.params[2]) = {}
               /\ PayWithin(c, out.params[1], out.params[2]) = {} )
         => /\ out.result.error = "none"
            /\ out.result.table = <<>>

\* What a run returned to its page: the table, or the exception.
Returned(result) == [error |-> result.error, table |-> result.table]

\* The result of the run before, of the same report with the same arguments.
Rerun == prev.report # "none"

MatchedPayments ==
    SelectSeq(df_payments, LAMBDA q :
        \E i \in 1..Len(df_invoices) : df_invoices[i]["Invoice ID"] = q["Invoice ID"])

\* The report of out, generated over the given Payments sheet.
ReportOver(payments) ==
    CASE out.report = "receivables" ->
            receivables_report_at(out.asof, df_invoices, payments,
                                  out.params[1], out.params[2], out.params[3])
      [] out.report = "banker" ->
            create_banker_report(df_invoices, payments, out.params[1], out.params[2])
      [] out.report = "ledger" ->
            create_customer_ledger(df_invoices, payments,
                                   out.params[1], out.params[2], out.params[3])
      [] out.report = "segment" ->
            create_segment_wise_report(df_invoices, payments, out.params[1])

\* C8: payments whose invoice_id matches no invoice change no cell of any
\* report and raise no error: each report equals the one generated without them.
C8_OrphanPaymentsChangeNothing ==
    out.report # "none" => Returned(out.result) = Returned(ReportOver(MatchedPayments))

\* A banker report with a row, over a sheet with an orphaned payment dated in
\* the window.
C8_Witness ==
    /\ BankerDone
    /\ out.result.table # <<>>
    /\ \E j \in 1..Len(df_payments) :
          /\ df_payments[j] \notin Range(MatchedPayments)
          /\ out.params[1] <= df_payments[j]["Payment Date"]
          /\ df_payments[j]["Payment Date"] <= out.params[2]

---------------------------------------------------------------------------
\* A ledger "Date" cell, <<day, month, year>>, as a number that orders dates.
DateKey(cell) == cell[3] * 10000 + cell[2] * 100 + cell[1]

\* Rows i < j of a ledger table that show one date stand as inserted: no
\* payment above an invoice, and rows of one kind by ascending sheet position.
TiesAsInserted(t) ==
    \A i, j \in 1..Len(t) :
        (i < j /\ t[i]["Date"] = t[j]["Date"]) =>
            /\ ~(t[i]["Txn Type"][1] = "Payment" /\ t[j]["Txn Type"][1] = "Invoice")
            /\ t[i]["Txn Type"][1] = t[j]["Txn Type"][1]
                  => t[i]["Txn Type"][2] < t[j]["Txn Type"][2]

DatesAscend(t) ==
    \A i, j \in 1..Len(t) : i < j => DateKey(t[i]["Date"]) <= DateKey(t[j]["Date"])

\* Each Running Balance is the one above it (the opening balance for the
\* first row) plus the row's debit minus its credit.
BalancesRun(t, opening) ==
    \A i \in 1..Len(t) :
        t[i]["Running Balance"] =
            (IF i = 1 THEN opening ELSE t[i - 1]["Running Balance"])
            + t[i]["Debits"] - t[i]["Credits"]

LedgerOpening ==
    InvoiceTotal(InvBefore(out.params[3], out.params[1]))
    - PaymentTotal(PayBefore(out.params[3], out.params[1]))

LedgerOrderedUpToTies ==
    LedgerDone =>
        /\ DatesAscend(out.result.table)
        /\ BalancesRun(out.result.table, LedgerOpening)

\* On a build whose sort keeps ties the rows of one date stand as inserted.
StableSortKeepsTies ==
    (LedgerDone /\ tie_break = "stable") => TiesAsInserted(out.result.table)

---------------------------------------------------------------------------
\* SpecEdge: the segment page over invoices dated on the first and the last
\* day of every bucket and on the day after the last bucket, entered in date
\* order, one invoice a day, with payments of 500 dated 2024-03-31.

EdgeDates ==
    {time_buckets[i].start_d : i \in 1..Len(time_buckets)}
    \cup {time_buckets[i].end_d : i \in 1..Len(time_buckets)}
    \cup {time_buckets[Len(time_buckets)].end_d + 1}

EdgeInvoiceRows ==
    {InvoiceRow(1, "CoA", Some(1), d, None, 1000, <<400, 300, 300>>) : d \in EdgeDates}

InitEdge ==
    /\ Loaded(EdgeInvoiceRows, {Day1}, {500}, {Day2}, {"stable"},
              Sessions(DefaultWindow, {"Grand Total"}, {1}, {"All Companies"}))
    /\ \A i \in 1..(Len(df_invoices) - 1) :
          df_invoices[i]["Invoice Date"] < df_invoices[i + 1]["Invoice Date"]

NextEdge == show_segment_wise

SpecEdge == InitEdge /\ [][NextEdge]_vars

\* The buckets holding date d, by position in time_buckets.
BucketsHolding(d) ==
    {k \in 1..Len(time_buckets) :
        time_buckets[k].start_d <= d /\ d <= time_buckets[k].end_d}

SegmentCell(seg, line, c) == out.result.table[<<seg, line>>][c]

\* C12: the seven buckets do not overlap and cover 1900-01-01 through
\* 2025-03-31 without a gap, so an invoice's segment revenue is in
\* "Outstanding as on Date" of exactly one bucket when its date is in that
\* span and of none when it is later, whatever the payments; and in every
\* bucket and segment Balance OS = Outstanding as on Date - Less: Payment
\* Received.
C12_BucketsPartitionInvoices ==
    SegmentDone =>
        LET n       == Len(time_buckets)
            company == out.params[1]
            InBucket(c) ==
                {i \in CompanyInvoices(company) :
                    BucketOf(df_invoices[i]["Invoice Date"]) = Some(c)}
        IN  /\ n = 7
            /\ strftime(time_buckets[1].start_d) = <<1, 1, 1900>>
            /\ strftime(time_buckets[n].end_d) = <<31, 3, 2025>>
            /\ \A k \in 1..n : time_buckets[k].start_d <= time_buckets[k].end_d
            /\ \A k \in 1..(n - 1) :
                  time_buckets[k + 1].start_d = time_buckets[k].end_d + 1
            /\ \A i \in CompanyInvoices(company) :
                  LET d == df_invoices[i]["Invoice Date"]
                  IN  Cardinality(BucketsHolding(d)) =
                         IF d > time_buckets[n].end_d THEN 0 ELSE 1
            /\ \A seg \in Range(segments) : \A c \in Range(col_labels) :
                  /\ SegmentCell(seg, "Outstanding as on Date", c) =
                        FromInt(SumOver(InBucket(c),
                                  [i \in InBucket(c) |-> df_invoices[i][seg \o " Revenue"]]))
                  /\ SegmentCell(seg, "Balance OS", c) =
                        RatSub(SegmentCell(seg, "Outstanding as on Date", c),
                               SegmentCell(seg, "Less: Payment Received", c))

\* An invoice dated after the last bucket beside one of 2024-03-31 that was
\* half paid on its day: Machine shows 400 less 200 in "FY 23-24 H2" alone.
C12_Witness ==
    /\ SegmentDone
    /\ \E i \in 1..Len(df_invoices) :
          df_invoices[i]["Invoice Date"] > time_buckets[Len(time_buckets)].end_d
    /\ SegmentCell("Machine", "Outstanding as on Date", "FY 23-24 H2") = FromInt(400)
    /\ SegmentCell("Machine", "Balance OS", "FY 23-24 H2") = FromInt(200)
    /\ \A c \in Range(col_labels) \ {"FY 23-24 H2"} :
          SegmentCell("Machine", "Outstanding as on Date", c) = FromInt(0)

---------------------------------------------------------------------------
\* The one row of the ungrouped report over the arguments and the day of the
\* grouped report in out.
GrandTotalRow ==
    receivables_report_at(out.asof, df_invoices, df_payments, out.params[1],
                          out.params[2], "Grand Total").table[1]

\* The group rows of out add up, column by column, to the Grand Total row.
GroupRowsAddUp ==
    LET t == out.result.table
    IN  /\ \A c \in {"Total OS"} \cup Range(AgingColumns) :
              SumOver(DOMAIN t, [i \in DOMAIN t |-> t[i][c]]) = GrandTotalRow[c]
        /\ \A c \in {"Machine OS", "Parts OS", "Service OS"} :
              RatSumOver(DOMAIN t, [i \in DOMAIN t |-> t[i][c]]) = GrandTotalRow[c]

GroupedDone == ReceivablesDone /\ out.params[3] # "Grand Total"

\* The invoices of the window that have no value in the grouping column.
Ungrouped ==
    {i \in 1..Len(df_invoices) :
        /\ InRange(df_invoices[i]["Invoice Date"], out.params[1], out.params[2])
        /\ GroupKey(df_invoices[i], group_col(out.params[3])[1]) = None}

\* C13: the grouped receivables report partitions the ungrouped one: over
\* the same invoices, payments and window the group rows sum, in Total OS,
\* in every aging column and in every line-OS column, to the cell of the
\* Grand Total row, for every grouping key, also when an invoice of the
\* window has no value for the grouping attribute.
C13_GroupsPartitionGrandTotal == GroupedDone => GroupRowsAddUp

\* What remains of C13: the sums agree when every invoice of the window has
\* a value in the grouping column.
GroupsPartitionWhenKeyed == (GroupedDone /\ Ungrouped = {}) => GroupRowsAddUp

\* Two branches in one report, every invoice of the window in one of them.
GroupsPartitionWhenKeyedWitness ==
    /\ GroupedDone
    /\ Ungrouped = {}
    /\ Len(out.result.table) = 2
    /\ GrandTotalRow["Total OS"] > out.result.table[1]["Total OS"]

====
